---------------------------- MODULE Spec2Model ----------------------------
(***************************************************************************)
(* sshp: the parallel execution engine of src/src/sshp.c.                  *)
(*                                                                         *)
(* The model follows main_loop() and everything it calls: admission of     *)
(* hosts up to opts.max_jobs, epoll_wait(), read_active_fd() with the      *)
(* three formatters (line-by-line, group, join), wait_for_child(), and     *)
(* join_mode_finish() after the loop; before it, what main() does up to   *)
(* main_loop(): parse_arguments(), parse_hosts(), epoll_create1().         *)
(*                                                                         *)
(* Bytes are integers (NUL = 0, NL = 10).  A malloc'ed buffer is a         *)
(* sequence of its capacity whose cells start as UNINIT; C index i is      *)
(* sequence index i + 1.  A child is an external program: the bytes it     *)
(* writes are chosen when read() returns them and are recorded in sent.    *)
(***************************************************************************)
EXTENDS Integers, Sequences, FiniteSets, TLC

\* ---- program constants ------------------------------------------------
MODE_LINE_BY_LINE == 0
MODE_GROUP == 1
MODE_JOIN == 2

PIPE_STDOUT == 1
PIPE_STDERR == 2
PIPE_STDIO == 3

FD_UNSET == -1
FD_CLOSED == -2
PID_UNSET == -1
PID_REAPED == -2

MAX_ARGS == 256
HOST_NAME_MAX == 64

NUL == 0
NL == 10
CR == 13
SPACE == 32
LetterA == 97
UNINIT == -1

\* ---- bounds of the model ----------------------------------------------
\* Spec: the scheduler with all three modes
MaxHosts == 3
MaxJobs == 2
\* SpecLine: one host in line-by-line mode
MaxLineLen == 2
LineStreamLen == 4
\* SpecJoin: join mode, capture and aggregation
JoinHosts == 2
MaxOutLen == 1
JoinStreamLen == 2
\* FairSpec: the scheduler under fairness
FairHosts == 2
\* SpecExit: bytes on a pipe, and max_line_length
ExitStreamLen == 1
\* SpecMain: lines of the hosts file
StartLines == 1
\* events returned by one epoll_wait (EPOLL_MAX_EVENTS is 50)
MaxBatch == 2

VARIABLES
    input,            \* the command line and the hosts file, as given
    status,           \* exit status of the program; -1 while it runs
    epoll_fd,         \* static int epoll_fd
    opts,             \* struct opts: mode, max_jobs, max_line_length, ...
    env,              \* what the children may write: alphabet and bytes per pipe
    num_hosts,        \* length of the hosts list
    stdout_isatty,
    cp,               \* host -> ChildProcess; DOMAIN cp = hosts with cp != NULL
    fdev,             \* <<host, type>> -> FdEvent; DOMAIN fdev = live FdEvents
    epoll,            \* the <<host, type>> whose fd is registered in epoll_fd
    cur_host,         \* main_loop: next host to admit; num_hosts + 1 is NULL
    outstanding,
    done,
    events,           \* main_loop: the batch epoll_wait returned
    ev_i,             \* main_loop: index i of the for loop over events
    pc,               \* position in main()/main_loop()
    newline_printed,
    last_host,        \* process_data_group's static last_host; 0 is NULL
    out,              \* what was handed to stdout, in order
    sent,             \* <<host, type>> -> bytes read from that pipe so far
    report,           \* join_mode_finish: idx and the blocks it prints
    open_fds,         \* the <<host, type>> whose pipe is open in the parent
    calls             \* what the last read_active_fd did at end of file, in order

vars == <<input, status, epoll_fd, opts, env, num_hosts, stdout_isatty, cp, fdev, epoll, cur_host,
          outstanding, done, events, ev_i, pc, newline_printed,
          last_host, out, sent, report, open_fds, calls>>

Hosts == 1..num_hosts

\* ---- C strings and buffers --------------------------------------------
\* malloc(n): n cells, not initialised
Malloc(n) == [k \in 1..n |-> UNINIT]

\* buffer[i] = c.  A write past the end of the buffer lands in the memory
\* behind it: the sequence grows, and is no longer of the malloc'ed size.
Store(buf, i, c) ==
    IF i + 1 \in DOMAIN buf THEN [buf EXCEPT ![i + 1] = c]
    ELSE buf \o [j \in 1..(i - Len(buf)) |-> UNINIT] \o <<c>>

RECURSIVE strlen_from(_, _)
strlen_from(s, i) == IF s[i + 1] = NUL THEN 0 ELSE 1 + strlen_from(s, i + 1)

strlen(s) == strlen_from(s, 0)

\* the bytes printf("%s", s) writes: s up to its first nul byte
CStr(s) == SubSeq(s, 1, strlen(s))

RECURSIVE strcmp_from(_, _, _)
strcmp_from(a, b, i) ==
    IF a[i + 1] # b[i + 1]
    THEN (IF a[i + 1] < b[i + 1] THEN -1 ELSE 1)
    ELSE IF a[i + 1] = NUL THEN 0
    ELSE strcmp_from(a, b, i + 1)

strcmp(a, b) == strcmp_from(a, b, 0)

ends_in_newline(s) ==
    LET idx == strlen(s) IN
    IF idx = 0 THEN FALSE ELSE s[idx] = NL

\* ---- ChildProcess, FdEvent --------------------------------------------
child_process_create ==
    [pid |-> PID_UNSET, stdout_fd |-> FD_UNSET, stderr_fd |-> FD_UNSET,
     stdio_fd |-> FD_UNSET, output |-> <<>>, output_idx |-> -1,
     exit_code |-> -1]

\* mutant: && for ||, the child is done when all three are closed
C25_stdio_done_mutant(c) ==
    (c.stdout_fd = FD_CLOSED /\ c.stderr_fd = FD_CLOSED)
        /\ c.stdio_fd = FD_CLOSED

\* mutant: one closed pipe of the two is taken for both
C2_stdio_done_mutant(c) ==
    c.stdout_fd = FD_CLOSED \/ c.stderr_fd = FD_CLOSED
        \/ c.stdio_fd = FD_CLOSED

child_process_stdio_done(c) ==
    (c.stdout_fd = FD_CLOSED /\ c.stderr_fd = FD_CLOSED)
        \/ c.stdio_fd = FD_CLOSED

\* the descriptor pipe() hands out for a host's pipe: some number >= 0,
\* different for every open pipe
make_pipe(h, t) == 4 * h + t

FdOf(c, t) ==
    CASE t = PIPE_STDOUT -> c.stdout_fd
      [] t = PIPE_STDERR -> c.stderr_fd
      [] t = PIPE_STDIO -> c.stdio_fd

SetFd(c, t, v) ==
    CASE t = PIPE_STDOUT -> [c EXCEPT !.stdout_fd = v]
      [] t = PIPE_STDERR -> [c EXCEPT !.stderr_fd = v]
      [] t = PIPE_STDIO -> [c EXCEPT !.stdio_fd = v]

fdev_create(o, c, h, t) ==
    [host |-> h, type |-> t, offset |-> 0, fd |-> FdOf(c, t),
     buffer |-> CASE o.mode = MODE_LINE_BY_LINE -> Malloc(o.max_line_length + 2)
                  [] o.mode = MODE_JOIN -> Malloc(o.max_output_length + 1)
                  [] o.mode = MODE_GROUP -> <<>>]


\* ---- stdout -----------------------------------------------------------
\* One entry of out: what one printf()/write() call was handed.  hdr tells
\* whether "[host] " was printed in front; data are the bytes handed over.
Emit(kind, h, t, hdr, data) ==
    [kind |-> kind, host |-> h, type |-> t, hdr |-> hdr, data |-> data]

\* print_line_buffer is handed fdev->buffer, nul-terminated at fdev->offset:
\* data is buffer[0 .. offset], the terminator included
print_line_buffer(o, f) ==
    Emit("line", f.host, f.type, ~o.anonymous,
         SubSeq(f.buffer, 1, f.offset + 1))

\* the bytes a "line" entry puts on stdout: printf("%s") stops at a nul byte
Printed(e) == CStr(e.data)

\* ---- the formatters ---------------------------------------------------
\* The state the reader and the formatters work on is passed as one record
\* w: cp, fdev, epoll, out, newline_printed, last_host.

\* mutant: >= for ==, a newline is stored for every byte over the length
C29_line_store_mutant(o, f, c) ==
    IF f.offset < o.max_line_length
    THEN [f EXCEPT !.buffer = Store(@, f.offset, c), !.offset = @ + 1]
    ELSE IF f.offset >= o.max_line_length
    THEN [f EXCEPT !.buffer = Store(@, f.offset, NL), !.offset = @ + 1]
    ELSE f

\* mutant: the room test is off by one
C10_line_store_mutant(o, f, c) ==
    IF f.offset < o.max_line_length - 1
    THEN [f EXCEPT !.buffer = Store(@, f.offset, c), !.offset = @ + 1]
    ELSE IF f.offset = o.max_line_length
    THEN [f EXCEPT !.buffer = Store(@, f.offset, NL), !.offset = @ + 1]
    ELSE f

\* process_data_line_by_line, the if / else if on fdev->offset
line_store(o, f, c) ==
    IF f.offset < o.max_line_length
    THEN [f EXCEPT !.buffer = Store(@, f.offset, c), !.offset = @ + 1]
    ELSE IF f.offset = o.max_line_length
    THEN [f EXCEPT !.buffer = Store(@, f.offset, NL), !.offset = @ + 1]
    ELSE f

\* one iteration of the for loop of process_data_line_by_line
line_by_line_char(o, w, k, c) ==
    LET f0 == w.fdev[k]
        f1 == line_store(o, f0, c)
    IN  IF c = NL
        THEN LET f2 == [f1 EXCEPT !.buffer = Store(@, f1.offset, NUL)]
             IN  [w EXCEPT !.out = Append(@, print_line_buffer(o, f2)),
                           !.fdev[k] = [f2 EXCEPT !.offset = 0]]
        ELSE [w EXCEPT !.fdev[k] = f1]

RECURSIVE process_data_line_by_line(_, _, _, _)
process_data_line_by_line(o, w, k, buf) ==
    IF buf = <<>> THEN w
    ELSE process_data_line_by_line(o, line_by_line_char(o, w, k, Head(buf)),
                                   k, Tail(buf))

\* mutant: the latch is never set, every chunk counts as a new host's
C11_process_data_group_mutant(o, w, k, buf) ==
    LET h == w.fdev[k].host
        o1 == IF ~w.newline_printed
              THEN Append(w.out, Emit("newline", 0, 0, FALSE, <<NL>>))
              ELSE w.out
        o2 == IF ~o.anonymous
              THEN Append(o1, Emit("header", h, 0, TRUE, <<NL>>))
              ELSE o1
        o3 == Append(o2, Emit("chunk", h, w.fdev[k].type, FALSE, buf))
    IN  [w EXCEPT !.out = o3,
                  !.newline_printed = (buf[Len(buf)] = NL)]

\* mutant: the newline is written before every chunk that follows a chunk
\* without one, also within one host's run
C15_process_data_group_mutant(o, w, k, buf) ==
    LET h == w.fdev[k].host
        newhost == w.last_host # h
        o1 == IF ~w.newline_printed
              THEN Append(w.out, Emit("newline", 0, 0, FALSE, <<NL>>))
              ELSE w.out
        o2 == IF newhost /\ ~o.anonymous
              THEN Append(o1, Emit("header", h, 0, TRUE, <<NL>>))
              ELSE o1
        o3 == Append(o2, Emit("chunk", h, w.fdev[k].type, FALSE, buf))
    IN  [w EXCEPT !.out = o3,
                  !.newline_printed = (buf[Len(buf)] = NL),
                  !.last_host = h]

process_data_group(o, w, k, buf) ==
    LET h == w.fdev[k].host
        newhost == w.last_host # h
        o1 == IF newhost /\ ~w.newline_printed
              THEN Append(w.out, Emit("newline", 0, 0, FALSE, <<NL>>))
              ELSE w.out
        o2 == IF newhost /\ ~o.anonymous
              THEN Append(o1, Emit("header", h, 0, TRUE, <<NL>>))
              ELSE o1
        o3 == Append(o2, Emit("chunk", h, w.fdev[k].type, FALSE, buf))
    IN  [w EXCEPT !.out = o3,
                  !.newline_printed = (buf[Len(buf)] = NL),
                  !.last_host = h]

\* mutant: >= for ==, the nul is stored again for every byte over the cap
C27_join_char_mutant(o, f, c) ==
    IF f.offset < o.max_output_length
    THEN [f EXCEPT !.buffer = Store(@, f.offset, c), !.offset = @ + 1]
    ELSE IF f.offset >= o.max_line_length
    THEN [f EXCEPT !.buffer = Store(@, f.offset, NUL), !.offset = @ + 1]
    ELSE f

\* mutant: <= for <, one byte too many is taken
C7_join_char_mutant(o, f, c) ==
    IF f.offset <= o.max_output_length
    THEN [f EXCEPT !.buffer = Store(@, f.offset, c), !.offset = @ + 1]
    ELSE IF f.offset = o.max_line_length
    THEN [f EXCEPT !.buffer = Store(@, f.offset, NUL), !.offset = @ + 1]
    ELSE f

\* one iteration of the for loop of process_data_join; the third branch
\* (break) leaves the FdEvent as it is, as do the iterations it skips
join_char(o, f, c) ==
    IF f.offset < o.max_output_length
    THEN [f EXCEPT !.buffer = Store(@, f.offset, c), !.offset = @ + 1]
    ELSE IF f.offset = o.max_line_length
    THEN [f EXCEPT !.buffer = Store(@, f.offset, NUL), !.offset = @ + 1]
    ELSE f

RECURSIVE join_chars(_, _, _)
join_chars(o, f, buf) ==
    IF buf = <<>> THEN f
    ELSE join_chars(o, join_char(o, f, Head(buf)), Tail(buf))

\* mutant: every chunk is stored from the start of the buffer
C14_process_data_join_mutant(o, w, k, buf) ==
    [w EXCEPT !.fdev[k] = join_chars(o, [w.fdev[k] EXCEPT !.offset = 0], buf)]

process_data_join(o, w, k, buf) ==
    [w EXCEPT !.fdev[k] = join_chars(o, w.fdev[k], buf)]


\* ---- read_active_fd ---------------------------------------------------
\* mutant: opts.silent is not looked at
C23_read_chunk_mutant(o, w, k, buf) ==
    LET w1 == [w EXCEPT !.sent[k] = @ \o buf]
    IN  CASE o.mode = MODE_JOIN -> process_data_join(o, w1, k, buf)
          [] o.mode = MODE_LINE_BY_LINE ->
                 process_data_line_by_line(o, w1, k, buf)
          [] o.mode = MODE_GROUP -> process_data_group(o, w1, k, buf)

\* the body of the read loop for one read() that returned bytes > 0
read_chunk(o, w, k, buf) ==
    LET w1 == [w EXCEPT !.sent[k] = @ \o buf]
    IN  IF o.silent THEN w1
        ELSE CASE o.mode = MODE_JOIN -> process_data_join(o, w1, k, buf)
               [] o.mode = MODE_LINE_BY_LINE ->
                      process_data_line_by_line(o, w1, k, buf)
               [] o.mode = MODE_GROUP -> process_data_group(o, w1, k, buf)

RECURSIVE read_chunks(_, _, _, _)
read_chunks(o, w, k, chunks) ==
    IF chunks = <<>> THEN w
    ELSE read_chunks(o, read_chunk(o, w, k, Head(chunks)), k, Tail(chunks))

\* mutant: the FdEvent and its buffer are never freed
C24_fdev_destroy_mutant(fd_events, k) == fd_events

\* fdev_destroy: the FdEvent (and the buffer it still points to) is freed
fdev_destroy(fd_events, k) ==
    [x \in (DOMAIN fd_events) \ {k} |-> fd_events[x]]

\* mutant: the line flushed at end of file is left as it is
C9_eof_newline_mutant(f) == f

\* "data remaining! put a newline if it didn't have one"
eof_newline(f) ==
    IF f.buffer[f.offset] # NL
    THEN [f EXCEPT !.buffer = Store(@, f.offset, NL), !.offset = @ + 1]
    ELSE f

\* epoll_ctl(epoll_fd, EPOLL_CTL_DEL, *fd, NULL)
epoll_ctl_del(w, k) ==
    [w EXCEPT !.epoll = @ \ {k}, !.calls = Append(@, <<"epoll_ctl_del", k>>)]

\* close(*fd)
close(w, k) ==
    [w EXCEPT !.open_fds = @ \ {k}, !.calls = Append(@, <<"close", k>>)]

\* *fd = -2
mark_closed(w, k) ==
    [w EXCEPT !.cp[k[1]] = SetFd(@, k[2], FD_CLOSED),
              !.calls = Append(@, <<"mark", k>>)]

\* mutant: the descriptor is closed while it is still registered
C20_eof_close_mutant(w, k) == mark_closed(epoll_ctl_del(close(w, k), k), k)

\* lines 990-992
eof_close(w, k) == mark_closed(close(epoll_ctl_del(w, k), k), k)

\* the body of the read loop for the read() that returned 0
read_eof(o, w, k) ==
    LET h == w.fdev[k].host
        f0 == w.fdev[k]
        w1 == eof_close(w, k)
        w2 == CASE o.mode = MODE_LINE_BY_LINE ->
                      IF f0.offset = 0 THEN w1
                      ELSE LET f1 == eof_newline(f0)
                               f2 == [f1 EXCEPT
                                        !.buffer = Store(@, f1.offset, NUL)]
                           IN  [w1 EXCEPT
                                  !.out = Append(@, print_line_buffer(o, f2)),
                                  !.fdev[k] = [f2 EXCEPT !.offset = 0]]
                [] o.mode = MODE_GROUP -> w1
                [] o.mode = MODE_JOIN ->
                      LET f1 == IF f0.offset <= o.max_output_length
                                THEN [f0 EXCEPT
                                        !.buffer = Store(@, f0.offset, NUL),
                                        !.offset = @ + 1]
                                ELSE f0
                      IN  [w1 EXCEPT !.cp[h].output = f1.buffer,
                                     !.fdev[k] = [f1 EXCEPT !.buffer = <<>>]]
    IN  [w2 EXCEPT !.fdev = fdev_destroy(@, k),
                   !.calls = Append(@, <<"fdev_destroy", k>>)]

\* read_active_fd(fdev): the reads return the chunks, one after the other,
\* and then 0 (eof) or -1 with EWOULDBLOCK.  The result is the state and
\* the value returned.
read_active_fd(o, w, k, chunks, eof) ==
    LET w1 == read_chunks(o, [w EXCEPT !.calls = <<>>], k, chunks)
    IN  IF eof THEN [w |-> read_eof(o, w1, k), closed |-> TRUE]
        ELSE [w |-> w1, closed |-> FALSE]

\* ---- wait_for_child ---------------------------------------------------
\* mutant: the summary line is printed for -d only
C12_wait_for_child_mutant(o, w, h, code) ==
    LET w1 == [w EXCEPT !.cp[h].exit_code = code, !.cp[h].pid = PID_REAPED]
    IN  IF o.debug
        THEN [w1 EXCEPT
                !.out = Append(IF ~w.newline_printed
                               THEN Append(@, Emit("newline", 0, 0, FALSE, <<NL>>))
                               ELSE @,
                               Emit("exit", h, 0, TRUE, <<code>>)),
                !.newline_printed = TRUE]
        ELSE w1

wait_for_child(o, w, h, code) ==
    LET w1 == [w EXCEPT !.cp[h].exit_code = code, !.cp[h].pid = PID_REAPED]
    IN  IF o.exit_codes \/ o.debug
        THEN [w1 EXCEPT
                !.out = Append(IF ~w.newline_printed
                               THEN Append(@, Emit("newline", 0, 0, FALSE, <<NL>>))
                               ELSE @,
                               Emit("exit", h, 0, TRUE, <<code>>)),
                !.newline_printed = TRUE]
        ELSE w1

print_progress_line(d, n) == Emit("progress", 0, 0, FALSE, <<d, n>>)


\* ---- join_mode_finish -------------------------------------------------
\* the inner loop over h2, from h2 on: the records and num_same
RECURSIVE join_inner(_, _, _, _, _, _)
join_inner(c, n, h1, h2, idx, num_same) ==
    IF h2 > n THEN [cp |-> c, num_same |-> num_same]
    ELSE IF c[h2].output_idx >= 0
    THEN join_inner(c, n, h1, h2 + 1, idx, num_same)
    ELSE IF strcmp(c[h1].output, c[h2].output) = 0
    THEN join_inner([c EXCEPT ![h2].output_idx = idx], n, h1, h2 + 1, idx,
                    num_same + 1)
    ELSE join_inner(c, n, h1, h2 + 1, idx, num_same)

\* the outer loop over h1, from h1 on: the records, idx and count[]
RECURSIVE join_outer(_, _, _, _, _)
join_outer(c, n, h1, idx, count) ==
    IF h1 > n THEN [cp |-> c, idx |-> idx, count |-> count]
    ELSE IF c[h1].output_idx >= 0 THEN join_outer(c, n, h1 + 1, idx, count)
    ELSE LET r == join_inner([c EXCEPT ![h1].output_idx = idx], n, h1,
                             h1 + 1, idx, 1)
         IN  join_outer(r.cp, n, h1 + 1, idx + 1, Append(count, r.num_same))

\* the names the loop over the hosts prints for class i, and the output
\* pointer it is left with (that of the last host of the class)
RECURSIVE join_names(_, _, _, _)
join_names(c, n, h, i) ==
    IF h > n THEN <<>>
    ELSE IF c[h].output_idx # i THEN join_names(c, n, h + 1, i)
    ELSE <<h>> \o join_names(c, n, h + 1, i)

join_block(c, n, i, count) ==
    LET names == join_names(c, n, 1, i)
        output == c[names[Len(names)]].output
    IN  [count |-> count[i + 1], total |-> n, names |-> names,
         output |-> CStr(output), nl_added |-> ~ends_in_newline(output)]

\* the result: the records with output_idx set, and what is printed
join_mode_finish(c, n) ==
    LET r == join_outer(c, n, 1, 0, <<>>)
    IN  [cp |-> r.cp,
         report |-> [idx |-> r.idx,
                     blocks |-> [b \in 1..r.idx |->
                                    join_block(r.cp, n, b - 1, r.count)]]]

\* ---- the children -----------------------------------------------------
RECURSIVE Strs(_, _)
Strs(B, n) == IF n = 0 THEN {} ELSE Strs(B, n - 1) \cup [1..n -> B]

\* what the reads of one read_active_fd call can return before the read
\* that ends it: chunks of at least one byte, at most n bytes together
RECURSIVE ChunkLists(_, _)
ChunkLists(B, n) ==
    {<<>>} \cup UNION {{<<c>> \o r : r \in ChunkLists(B, n - Len(c))} :
                        c \in Strs(B, n)}

PipeTypes(o) ==
    IF o.mode = MODE_JOIN THEN {PIPE_STDIO} ELSE {PIPE_STDOUT, PIPE_STDERR}

\* the batches epoll_wait can return: at least one registered descriptor,
\* each at most once, in any order
RECURSIVE Batches(_, _)
Batches(S, n) ==
    IF n = 0 \/ S = {} THEN {<<>>}
    ELSE {<<>>} \cup UNION {{<<k>> \o r : r \in Batches(S \ {k}, n - 1)} :
                             k \in S}

\* ---- main() and main_loop() -------------------------------------------
World ==
    [cp |-> cp, fdev |-> fdev, epoll |-> epoll, out |-> out,
     newline_printed |-> newline_printed, last_host |-> last_host,
     sent |-> sent, open_fds |-> open_fds, calls |-> calls]

Install(w) ==
    /\ cp' = w.cp
    /\ fdev' = w.fdev
    /\ epoll' = w.epoll
    /\ out' = w.out
    /\ newline_printed' = w.newline_printed
    /\ last_host' = w.last_host
    /\ sent' = w.sent
    /\ open_fds' = w.open_fds
    /\ calls' = w.calls

\* mutant: -j with -a is let through
C17_parse_arguments_mutant(o) ==
    /\ o.max_jobs >= 1
    /\ ~(o.join /\ o.group)
    /\ ~(o.join /\ o.silent)
    /\ o.max_line_length > 0
    /\ o.max_output_length > 0

\* parse_arguments: the sanity checks an opts record has passed
parse_arguments(o) ==
    /\ o.max_jobs >= 1
    /\ ~(o.join /\ o.group)
    /\ ~(o.join /\ o.silent)
    /\ ~(o.join /\ o.anonymous)
    /\ o.max_line_length > 0
    /\ o.max_output_length > 0

\* parse_arguments, "set current sshp mode"
set_mode(o) ==
    [o EXCEPT !.mode = IF o.join THEN MODE_JOIN
                       ELSE IF o.group THEN MODE_GROUP ELSE @]

\* push_arguments: n more strings pushed when idx are in base_ssh_command
push_arguments(idx, n) ==
    IF idx + n > MAX_ARGS - 2 THEN [idx |-> MAX_ARGS - 2, err |-> TRUE]
    ELSE [idx |-> idx + n, err |-> FALSE]

\* the strings in base_ssh_command once parse_arguments has returned:
\* "echo", "ssh", two for every -o, and those for -q, -i, -l, -p
base_ssh_command(i) == 2 + 2 * i.n_o + i.n_late

\* build_ssh_command: base_ssh_command, the host name and remote_command
\* are copied to command[size]; TRUE when errx(2, "too many arguments")
build_ssh_command(i, size) == base_ssh_command(i) + 1 + i.argc >= size

\* mutant: a line that does not fit the buffer is taken as a name
C16_parse_hosts_mutant(lines) ==
    [num_hosts |-> Len(SelectSeq(lines, LAMBDA l : l > 0)), err |-> FALSE]

\* parse_hosts over the lines of the hosts file, each given by the number
\* of its characters before the newline (0: a blank line): fgets takes at
\* most HOST_NAME_MAX - 1 characters, and the line is too long when the
\* newline is not among them
RECURSIVE parse_hosts(_)
parse_hosts(lines) ==
    IF lines = <<>> THEN [num_hosts |-> 0, err |-> FALSE]
    ELSE IF Head(lines) = 0 THEN parse_hosts(Tail(lines))
    ELSE IF Head(lines) + 1 > HOST_NAME_MAX - 1
    THEN [num_hosts |-> 0, err |-> TRUE]
    ELSE LET r == parse_hosts(Tail(lines))
         IN  [num_hosts |-> r.num_hosts + 1, err |-> r.err]

\* main() up to main_loop(): the exit status it ends with, -1 when it gets
\* to main_loop().  -v is taken as the last option of the command line.
startup(i, o) ==
    IF push_arguments(2, 2 * i.n_o).err THEN 2
    ELSE IF i.version THEN 0
    ELSE IF ~parse_arguments(o) THEN 2
    ELSE IF ~i.color_ok THEN 2
    ELSE IF i.unknown_option THEN 2
    ELSE IF i.help THEN 0
    ELSE IF i.argc < 1 THEN 2
    ELSE IF push_arguments(2 + 2 * i.n_o, i.n_late).err THEN 2
    ELSE IF ~i.file_ok THEN 2
    ELSE IF parse_hosts(i.lines).err THEN 2
    ELSE IF parse_hosts(i.lines).num_hosts < 1 THEN 2
    ELSE IF ~i.epoll_ok THEN 3
    ELSE -1

\* opts as the getopt loop leaves it for a command line that asks for the
\* mode r.mode and gives the other options of r
Options(S) ==
    {[mode |-> MODE_LINE_BY_LINE,
      join |-> (r.mode = MODE_JOIN), group |-> (r.mode = MODE_GROUP),
      max_jobs |-> r.max_jobs, max_line_length |-> r.max_line_length,
      max_output_length |-> r.max_output_length,
      anonymous |-> r.anonymous, silent |-> r.silent,
      exit_codes |-> r.exit_codes, debug |-> r.debug] : r \in S}

\* a command line with one word of command and no other option, a hosts
\* file of n names of one character, n in ns, and no system call failing
CommandLine(ns) ==
    {[version |-> FALSE, help |-> FALSE, unknown_option |-> FALSE,
      color_ok |-> TRUE, n_o |-> 0, n_late |-> 0, argc |-> 1,
      file_ok |-> TRUE, lines |-> [l \in 1..n |-> 1],
      epoll_ok |-> TRUE] : n \in ns}

\* the state main() starts in
Start ==
    /\ status = -1
    /\ epoll_fd = 0
    /\ num_hosts = 0
    /\ cp = <<>>
    /\ fdev = <<>>
    /\ epoll = {}
    /\ cur_host = 1
    /\ outstanding = 0
    /\ done = 0
    /\ events = <<>>
    /\ ev_i = 0
    /\ pc = "main"
    /\ newline_printed = TRUE
    /\ last_host = 0
    /\ out = <<>>
    /\ sent = [k \in Hosts \X {PIPE_STDOUT, PIPE_STDERR, PIPE_STDIO} |-> <<>>]
    /\ report = [idx |-> -1, blocks |-> <<>>]
    /\ open_fds = {}
    /\ calls = <<>>

\* main() up to the call of main_loop(): an error ends the program with
\* its exit status; otherwise the mode is set, the hosts are counted and
\* the epoll instance is made (descriptor 3, the first one free)
Main ==
    /\ pc = "main"
    /\ LET st == startup(input, opts)
       IN  IF st # -1
           THEN /\ status' = st
                /\ epoll_fd' = IF st = 3 THEN -1 ELSE epoll_fd
                /\ pc' = "exit"
                /\ UNCHANGED <<opts, num_hosts, sent>>
           ELSE /\ opts' = set_mode(opts)
                /\ num_hosts' = parse_hosts(input.lines).num_hosts
                /\ epoll_fd' = 3
                /\ sent' = [k \in (1..parse_hosts(input.lines).num_hosts)
                                     \X {PIPE_STDOUT, PIPE_STDERR, PIPE_STDIO}
                               |-> <<>>]
                /\ pc' = "enter"
                /\ UNCHANGED status
    /\ UNCHANGED <<open_fds, calls, input, env, stdout_isatty, cp, fdev, epoll, cur_host,
                   outstanding, done, events, ev_i, newline_printed,
                   last_host, out, report>>

\* main_loop, lines 1157-1164
Enter ==
    /\ pc = "enter"
    /\ out' = IF opts.mode = MODE_JOIN /\ stdout_isatty
              THEN Append(out, print_progress_line(done, num_hosts))
              ELSE out
    /\ pc' = "while"
    /\ UNCHANGED <<open_fds, calls, input, status, epoll_fd, opts, env, num_hosts,
                   stdout_isatty, cp, fdev, epoll,
                   cur_host, outstanding, done, events, ev_i,
                   newline_printed, last_host, sent, report>>

\* mutant: the loop ends with the roster, whatever is outstanding
C3_loop_cond_mutant(cur, n, outst) == cur <= n

\* mutant: && for ||
C4_loop_cond_mutant(cur, n, outst) == cur <= n /\ outst > 0

\* while (cur_host != NULL || outstanding > 0)
loop_cond(cur, n, outst) == cur <= n \/ outst > 0

LoopTest ==
    /\ pc = "while"
    /\ pc' = IF loop_cond(cur_host, num_hosts, outstanding)
             THEN "admit" ELSE "tail"
    /\ UNCHANGED <<open_fds, calls, input, status, epoll_fd, opts, env, num_hosts,
                   stdout_isatty, cp, fdev, epoll,
                   cur_host, outstanding, done, events, ev_i,
                   newline_printed, last_host, out, sent, report>>

\* spawn_child_process, in the parent
spawn_child_process(o, h) ==
    LET c == [child_process_create EXCEPT !.pid = 100 + h]
    IN  IF o.mode = MODE_JOIN
        THEN [c EXCEPT !.stdio_fd = make_pipe(h, PIPE_STDIO)]
        ELSE [c EXCEPT !.stdout_fd = make_pipe(h, PIPE_STDOUT),
                       !.stderr_fd = make_pipe(h, PIPE_STDERR)]

\* mutant: the last slot is never filled
C19_admit_cond_mutant(cur, n, outst, o) == cur <= n /\ outst < o.max_jobs - 1

\* mutant: the cap test lets one more child in
C1_admit_cond_mutant(cur, n, outst, o) == cur <= n /\ outst <= o.max_jobs

\* while (cur_host != NULL && outstanding < opts.max_jobs)
admit_cond(cur, n, outst, o) == cur <= n /\ outst < o.max_jobs

\* mutant: the cursor skips a host
C13_next_host_mutant(h) == h + 2

\* cur_host = cur_host->next: the roster is the list 1, 2, ..., num_hosts
next_host(h) == h + 1

\* one iteration of the admission loop: spawn_child_process, which ends the
\* program when build_ssh_command finds too many arguments, and
\* register_child_process_fds for cur_host
Admit ==
    /\ pc = "admit"
    /\ admit_cond(cur_host, num_hosts, outstanding, opts)
    /\ IF build_ssh_command(input, MAX_ARGS)
       THEN /\ status' = 2
            /\ pc' = "exit"
            /\ UNCHANGED <<cp, fdev, epoll, open_fds, outstanding,
                           cur_host>>
       ELSE /\ LET h == cur_host
                   c == spawn_child_process(opts, h)
                   keys == {<<h, t>> : t \in PipeTypes(opts)}
               IN  /\ cp' = [x \in (DOMAIN cp) \cup {h} |->
                                IF x = h THEN c ELSE cp[x]]
                   /\ fdev' = [k \in (DOMAIN fdev) \cup keys |->
                                  IF k \in keys
                                  THEN fdev_create(opts, c, k[1], k[2])
                                  ELSE fdev[k]]
                   /\ epoll' = epoll \cup keys
                   /\ open_fds' = open_fds \cup keys
            /\ outstanding' = outstanding + 1
            /\ cur_host' = next_host(cur_host)
            /\ UNCHANGED <<status, pc>>
    /\ UNCHANGED <<calls, input, epoll_fd, opts, env, num_hosts,
                   stdout_isatty, done, events, ev_i,
                   newline_printed, last_host, out, sent, report>>

\* epoll_wait with no timeout: returns once at least one registered
\* descriptor is readable or at end of file
EpollWait ==
    /\ pc = "admit"
    /\ ~admit_cond(cur_host, num_hosts, outstanding, opts)
    /\ \E b \in Batches(epoll, env.batch) :
          /\ b # <<>>
          /\ events' = b
    /\ ev_i' = 1
    /\ pc' = "events"
    /\ UNCHANGED <<open_fds, calls, input, status, epoll_fd, opts, env, num_hosts,
                   stdout_isatty, cp, fdev, epoll,
                   cur_host, outstanding, done, newline_printed, last_host,
                   out, sent, report>>

\* main_loop, lines 1207-1215: wait_for_child has the child's exit code,
\* and the progress line of join mode
reap(o, w, h, code, d, n) ==
    LET w1 == wait_for_child(o, w, h, code)
        o1 == IF o.mode = MODE_JOIN
              THEN Append(w1.out, print_progress_line(d + 1, n))
              ELSE w1.out
        o2 == IF o.mode = MODE_JOIN /\ d + 1 = n
              THEN Append(o1, Emit("newline", 0, 0, FALSE, <<NL>>))
              ELSE o1
    IN  [w1 EXCEPT !.out = o2]

\* mutant: the reap is counted in done only
C28_count_reap_mutant(outst, d) == [outstanding |-> outst, done |-> d + 1]

\* outstanding--; done++;
count_reap(outst, d) == [outstanding |-> outst - 1, done |-> d + 1]

\* one iteration of the loop over the events: read_active_fd and, when the
\* child's pipes are all closed, wait_for_child and the accounting.  When
\* the child has closed its pipes and has not exited yet, the waitpid() of
\* wait_for_child does not return: main_loop stays in it.
Dispatch ==
    /\ pc = "events"
    /\ ev_i <= Len(events)
    /\ LET k == events[ev_i]
           h == fdev[k].host
       IN  \E chunks \in ChunkLists(env.bytes, env.cap[k[2]] - Len(sent[k])),
              eof \in BOOLEAN, exited \in BOOLEAN, code \in env.codes :
              /\ chunks # <<>> \/ eof
              /\ LET r == read_active_fd(opts, World, k, chunks, eof)
                 IN  IF r.closed /\ child_process_stdio_done(r.w.cp[h])
                     THEN IF exited
                          THEN /\ Install(reap(opts, r.w, h, code, done,
                                               num_hosts))
                               /\ outstanding' =
                                      count_reap(outstanding, done).outstanding
                               /\ done' = count_reap(outstanding, done).done
                               /\ ev_i' = ev_i + 1
                               /\ UNCHANGED pc
                          ELSE /\ Install(r.w)
                               /\ pc' = "waitpid"
                               /\ UNCHANGED <<outstanding, done, ev_i>>
                     ELSE /\ Install(r.w)
                          /\ ev_i' = ev_i + 1
                          /\ UNCHANGED <<outstanding, done, pc>>
    /\ UNCHANGED <<input, status, epoll_fd, opts, env, num_hosts,
                   stdout_isatty, cur_host, events, report>>

\* the child exits and the waitpid() main_loop was in returns: the rest of
\* wait_for_child and of the iteration
Waitpid ==
    /\ pc = "waitpid"
    /\ \E code \in env.codes :
          Install(reap(opts, World, events[ev_i][1], code, done, num_hosts))
    /\ outstanding' = count_reap(outstanding, done).outstanding
    /\ done' = count_reap(outstanding, done).done
    /\ ev_i' = ev_i + 1
    /\ pc' = "events"
    /\ UNCHANGED <<input, status, epoll_fd, opts, env, num_hosts,
                   stdout_isatty, cur_host, events, report>>

\* the loop over the events is through: back to the while.  events and i
\* are dead until the next epoll_wait sets them.
EventsDone ==
    /\ pc = "events"
    /\ ev_i > Len(events)
    /\ pc' = "while"
    /\ events' = <<>>
    /\ ev_i' = 0
    /\ calls' = <<>>
    /\ UNCHANGED <<open_fds, input, status, epoll_fd, opts, env, num_hosts,
                   stdout_isatty, cp, fdev, epoll,
                   cur_host, outstanding, done,
                   newline_printed, last_host, out, sent, report>>

\* main() after main_loop(): close(epoll_fd), join_mode_finish in join mode,
\* return 0
MainTail ==
    /\ pc = "tail"
    /\ IF opts.mode = MODE_JOIN
       THEN LET r == join_mode_finish(cp, num_hosts)
            IN  cp' = r.cp /\ report' = r.report
       ELSE UNCHANGED <<cp, report>>
    /\ status' = 0
    /\ pc' = "exit"
    /\ UNCHANGED <<open_fds, calls, input, epoll_fd, opts, env, num_hosts,
                   stdout_isatty, fdev, epoll,
                   cur_host, outstanding, done, events, ev_i,
                   newline_printed, last_host, out, sent>>

Next == Main \/ Enter \/ LoopTest \/ Admit \/ EpollWait \/ Dispatch \/ Waitpid
            \/ EventsDone \/ MainTail

\* ---- the specifications -----------------------------------------------
\* the scheduler: every mode, rosters of 1..n hosts, caps 1..MaxJobs;
\* stdout and the merged pipe carry at most one byte, stderr none
InitScheduler(n) ==
    /\ input \in CommandLine(1..n)
    /\ opts \in Options([mode : {MODE_LINE_BY_LINE, MODE_GROUP, MODE_JOIN},
                 max_jobs : 1..MaxJobs,
                 max_line_length : {1}, max_output_length : {1},
                 anonymous : {FALSE}, silent : {FALSE},
                 exit_codes : {FALSE}, debug : {FALSE}])
    /\ env = [bytes |-> {LetterA}, cap |-> <<1, 0, 1>>, codes |-> {0},
              batch |-> MaxBatch]
    /\ stdout_isatty = FALSE
    /\ Start

Init == InitScheduler(MaxHosts)

Spec == Init /\ [][Next]_vars

\* line-by-line mode: one host whose stdout carries up to LineStreamLen
\* bytes, nul and newline among them; max_line_length in 1..MaxLineLen
InitLine ==
    /\ input \in CommandLine({1})
    /\ opts \in Options([mode : {MODE_LINE_BY_LINE}, max_jobs : {1},
                 max_line_length : 1..MaxLineLen, max_output_length : {1},
                 anonymous : {FALSE}, silent : {FALSE},
                 exit_codes : {FALSE}, debug : {FALSE}])
    /\ env = [bytes |-> {NUL, NL, LetterA}, cap |-> <<LineStreamLen, 0, 0>>,
              codes |-> {0}, batch |-> MaxBatch]
    /\ stdout_isatty = FALSE
    /\ Start

SpecLine == InitLine /\ [][Next]_vars

\* join mode: JoinHosts hosts, two at a time, whose merged pipes carry up
\* to JoinStreamLen bytes, nul and newline; max_output_length in
\* 1..MaxOutLen, max_line_length MaxOutLen (equal to it or above it)
InitJoin ==
    /\ input \in CommandLine({JoinHosts})
    /\ opts \in Options([mode : {MODE_JOIN}, max_jobs : {2},
                 max_line_length : {MaxOutLen},
                 max_output_length : 1..MaxOutLen,
                 anonymous : {FALSE}, silent : {FALSE},
                 exit_codes : {FALSE}, debug : {FALSE}])
    /\ env = [bytes |-> {NUL, NL}, cap |-> <<0, 0, JoinStreamLen>>,
              codes |-> {0}, batch |-> 2]
    /\ stdout_isatty = FALSE
    /\ Start

SpecJoin == InitJoin /\ [][Next]_vars


\* group mode: one host or two at once, whose stdout and stderr carry up to
\* one byte each, a newline or a letter; with and without -a
InitGroup ==
    /\ input \in CommandLine(1..2)
    /\ opts \in Options([mode : {MODE_GROUP}, max_jobs : {2},
                 max_line_length : {1}, max_output_length : {1},
                 anonymous : BOOLEAN, silent : {FALSE},
                 exit_codes : {FALSE}, debug : {FALSE}])
    /\ env = [bytes |-> {NL, LetterA},
              cap |-> <<1, 1, 0>>,
              codes |-> {0}, batch |-> MaxBatch]
    /\ stdout_isatty = FALSE
    /\ Start

SpecGroup == InitGroup /\ [][Next]_vars


\* -e: every mode, one or two hosts, exit codes 0 and 7; stdout and the
\* merged pipe carry up to ExitStreamLen bytes, and no line is longer than
\* max_line_length; stdout is a terminal or not
InitExit ==
    /\ input \in CommandLine(1..2)
    /\ opts \in Options([mode : {MODE_LINE_BY_LINE, MODE_GROUP, MODE_JOIN},
                 max_jobs : 1..2,
                 max_line_length : {ExitStreamLen},
                 max_output_length : {ExitStreamLen},
                 anonymous : {FALSE}, silent : {FALSE},
                 exit_codes : {TRUE}, debug : {FALSE}])
    /\ env = [bytes |-> {NL, LetterA},
              cap |-> <<ExitStreamLen, 0, ExitStreamLen>>,
              codes |-> {0, 7}, batch |-> MaxBatch]
    /\ stdout_isatty \in BOOLEAN
    /\ Start

SpecExit == InitExit /\ [][Next]_vars


\* join mode under every cap: JoinHosts hosts, 1..JoinHosts at a time, whose
\* merged pipes carry up to two bytes, read in one chunk or in two
InitJoinCap ==
    /\ input \in CommandLine({JoinHosts})
    /\ opts \in Options([mode : {MODE_JOIN}, max_jobs : 1..JoinHosts,
                 max_line_length : {1}, max_output_length : {1},
                 anonymous : {FALSE}, silent : {FALSE},
                 exit_codes : {FALSE}, debug : {FALSE}])
    /\ env = [bytes |-> {NL, LetterA}, cap |-> <<0, 0, 2>>,
              codes |-> {0}, batch |-> MaxBatch]
    /\ stdout_isatty = FALSE
    /\ Start

SpecJoinCap == InitJoinCap /\ [][Next]_vars


\* -s: line-by-line and group mode, one or two hosts, with and without -e;
\* stdout and stderr carry up to one byte each, a newline or a letter
InitSilent ==
    /\ input \in CommandLine(1..2)
    /\ opts \in Options([mode : {MODE_LINE_BY_LINE, MODE_GROUP},
                 max_jobs : 1..2,
                 max_line_length : {1}, max_output_length : {1},
                 anonymous : {FALSE}, silent : {TRUE},
                 exit_codes : BOOLEAN, debug : {FALSE}])
    /\ env = [bytes |-> {NL, LetterA}, cap |-> <<1, 1, 0>>,
              codes |-> {0}, batch |-> MaxBatch]
    /\ stdout_isatty = FALSE
    /\ Start

SpecSilent == InitSilent /\ [][Next]_vars


\* group mode with -e: two hosts at once, whose stdout and stderr carry up
\* to one byte each, a letter
InitGroupExit ==
    /\ input \in CommandLine({2})
    /\ opts \in Options([mode : {MODE_GROUP}, max_jobs : {2},
                 max_line_length : {1}, max_output_length : {1},
                 anonymous : {FALSE}, silent : {FALSE},
                 exit_codes : {TRUE}, debug : {FALSE}])
    /\ env = [bytes |-> {LetterA}, cap |-> <<1, 1, 0>>,
              codes |-> {0}, batch |-> MaxBatch]
    /\ stdout_isatty = FALSE
    /\ Start

SpecGroupExit == InitGroupExit /\ [][Next]_vars


\* join mode, the two lengths: one host whose merged pipe carries up to four
\* letters, in any chunks; max_line_length 1..3 and max_output_length 1..2,
\* so equal, smaller and larger
InitJoinLen ==
    /\ input \in CommandLine({1})
    /\ opts \in Options([mode : {MODE_JOIN}, max_jobs : {1},
                 max_line_length : 1..3, max_output_length : 1..2,
                 anonymous : {FALSE}, silent : {FALSE},
                 exit_codes : {FALSE}, debug : {FALSE}])
    /\ env = [bytes |-> {LetterA}, cap |-> <<0, 0, 4>>,
              codes |-> {0}, batch |-> MaxBatch]
    /\ stdout_isatty = FALSE
    /\ Start

SpecJoinLen == InitJoinLen /\ [][Next]_vars


\* main() from its start: command lines with and without -v, -h, an unknown
\* option, a bad -c, so many -o that base_ssh_command or the composed
\* command is full or nearly so, no command; option values in and out of
\* range, in every combination; hosts files that cannot be opened or have
\* up to StartLines lines, blank, short, as long as fits and too long;
\* epoll_create1 failing or not.  A run that gets to main_loop has one host
\* at most a line, with one byte of output.
InitMain ==
    /\ input \in [version : BOOLEAN, help : BOOLEAN,
                  unknown_option : BOOLEAN, color_ok : BOOLEAN,
                  n_o : (MAX_ARGS \div 2 - 3)..(MAX_ARGS \div 2 - 1) \cup {0},
                  n_late : {0, 1}, argc : {0, 1},
                  file_ok : BOOLEAN,
                  lines : UNION {[1..n -> {0, 1, HOST_NAME_MAX - 2,
                                           HOST_NAME_MAX - 1}] :
                                 n \in 0..StartLines},
                  epoll_ok : BOOLEAN]
    /\ opts \in [mode : {MODE_LINE_BY_LINE}, join : BOOLEAN, group : BOOLEAN,
                 max_jobs : {0, 1},
                 max_line_length : {0, 1}, max_output_length : {0, 1},
                 anonymous : BOOLEAN, silent : BOOLEAN,
                 exit_codes : {FALSE}, debug : {FALSE}]
    /\ env = [bytes |-> {LetterA}, cap |-> <<1, 0, 1>>, codes |-> {0},
              batch |-> MaxBatch]
    /\ stdout_isatty = FALSE
    /\ Start

SpecMain == InitMain /\ [][Next]_vars


\* every step main_loop can take is eventually taken; a child's output is
\* finite (env.cap), so its pipes reach end of file
InitFair == InitScheduler(FairHosts)

FairSpec == InitFair /\ [][Next]_vars /\ WF_vars(Next)

\* ---- the claims ---------------------------------------------------------
Reaped == {h \in DOMAIN cp : cp[h].pid = PID_REAPED}
Running == {h \in DOMAIN cp : cp[h].pid # PID_REAPED}

AllClosed(h) ==
    IF opts.mode = MODE_JOIN
    THEN cp[h].stdio_fd = FD_CLOSED
    ELSE cp[h].stdout_fd = FD_CLOSED /\ cp[h].stderr_fd = FD_CLOSED

\* C1: at every moment the number of children admitted and not yet reaped,
\* and the counter outstanding that stands for it, are at most opts.max_jobs
C1_OutstandingWithinCap ==
    /\ outstanding <= opts.max_jobs
    /\ Cardinality(Running) <= opts.max_jobs

\* C1 witness: the cap is reached again after a first child was reaped
C1_Witness ==
    /\ outstanding = opts.max_jobs
    /\ Cardinality(Running) = opts.max_jobs
    /\ done >= 1
    /\ num_hosts > opts.max_jobs

\* C2: a reaped child has all the pipes of its mode at end of file (closed,
\* deregistered, FdEvent destroyed); no child is reaped twice: done counts
\* the reaps and equals the number of reaped children; and at the end every
\* child is reaped
C2_ReapedOnceAfterEof ==
    /\ \A h \in Reaped :
          /\ AllClosed(h)
          /\ \A t \in PipeTypes(opts) :
                <<h, t>> \notin epoll /\ <<h, t>> \notin DOMAIN fdev
    /\ done = Cardinality(Reaped)
    /\ pc = "exit" => Reaped = Hosts

\* C2 witness: one child is reaped while another has its stderr at end of
\* file and its stdout still open
C2_Witness ==
    \E h1, h2 \in DOMAIN cp :
        /\ cp[h1].pid = PID_REAPED
        /\ cp[h2].stderr_fd = FD_CLOSED
        /\ cp[h2].stdout_fd >= 0
        /\ Len(sent[<<h1, PIPE_STDOUT>>]) > 0

\* C3: once main_loop has returned, done equals the number of hosts and
\* every host's child is reaped
C3_AllReapedAtExit ==
    pc \in {"tail", "exit"} => done = num_hosts /\ Reaped = Hosts

\* C3 witness: main_loop has returned for a roster longer than the cap
C3_Witness ==
    pc = "tail" /\ num_hosts > opts.max_jobs /\ done = num_hosts

\* C4: main_loop is left only with the cursor exhausted and outstanding
\* zero, it is left at the first test of the while that finds them so, and
\* under FairSpec it is eventually left with every host reaped
C4_Termination ==
    /\ [](pc \in {"tail", "exit"} =>
            cur_host = num_hosts + 1 /\ outstanding = 0)
    /\ [][pc = "while" =>
            (pc' = "tail" <=> cur_host = num_hosts + 1 /\ outstanding = 0)]_vars
    /\ <>(pc = "exit" /\ done = num_hosts /\ Reaped = Hosts)

\* C4 witness: main_loop is left after a run that filled the cap
C4_Witness ==
    pc = "exit" /\ done = num_hosts /\ num_hosts > opts.max_jobs


\* what a step may do to the roster cursor and the child records
AdmitsUnderCursor ==
    /\ (DOMAIN cp' # DOMAIN cp) =>
          /\ cur_host \notin DOMAIN cp
          /\ DOMAIN cp' = DOMAIN cp \cup {cur_host}
          /\ cp'[cur_host].pid >= 0
          /\ \A t \in PipeTypes(opts) :
                <<cur_host, t>> \in epoll' /\ <<cur_host, t>> \notin epoll
          /\ cur_host' = cur_host + 1
    /\ (cur_host' # cur_host) => DOMAIN cp' # DOMAIN cp
    /\ \A h \in DOMAIN cp : cp'[h].pid \in {cp[h].pid, PID_REAPED}

\* C13: the hosts admitted are at every moment the first cur_host - 1 of the
\* roster; a step that spawns a child spawns the one of the host under the
\* cursor, which had none, registers its pipes and moves the cursor to the
\* next host, and the cursor moves in no other step; a child record, once
\* made, changes its pid only by being reaped, in whatever order
C13_AdmissionInRosterOrder ==
    /\ [](DOMAIN cp = 1..(cur_host - 1))
    /\ [][AdmitsUnderCursor]_vars

\* C13 witness: the second host is reaped while the first is still running,
\* and the third was admitted after that reap
C13_Witness ==
    /\ opts.max_jobs = 2 /\ num_hosts = 3
    /\ 2 \in Reaped /\ 1 \in Running /\ 3 \in Running

\* ---- line-by-line mode --------------------------------------------------
RECURSIVE SelectKind(_, _, _)
SelectKind(o, kind, k) ==
    IF o = <<>> THEN <<>>
    ELSE IF Head(o).kind = kind /\ Head(o).host = k[1] /\ Head(o).type = k[2]
    THEN <<Head(o)>> \o SelectKind(Tail(o), kind, k)
    ELSE SelectKind(Tail(o), kind, k)

\* the lines printed for pipe k, in order
Lines(k) == SelectKind(out, "line", k)

\* a printed line without the terminating nul of the buffer
Text(e) == SubSeq(e.data, 1, Len(e.data) - 1)

RECURSIVE Concat(_)
Concat(es) == IF es = <<>> THEN <<>> ELSE Text(Head(es)) \o Concat(Tail(es))

RECURSIVE Without(_, _)
Without(q, c) ==
    IF q = <<>> THEN <<>>
    ELSE IF Head(q) = c THEN Without(Tail(q), c)
    ELSE <<Head(q)>> \o Without(Tail(q), c)

Count(q, c) == Len(q) - Len(Without(q, c))

\* pipe k was read to its end
AtEof(k) == k[1] \in DOMAIN cp /\ FdOf(cp[k[1]], k[2]) = FD_CLOSED

\* the longest stretch without a newline at the end of q
RECURSIVE LastLine(_)
LastLine(q) ==
    IF q = <<>> \/ q[Len(q)] = NL THEN <<>>
    ELSE LastLine(SubSeq(q, 1, Len(q) - 1)) \o <<q[Len(q)]>>

StdoutKey == <<1, PIPE_STDOUT>>

\* C5: in line-by-line mode an over-long line is split and every byte of it
\* is printed: once a pipe (of text, no nul byte in it) is at end of file,
\* the printed lines without their newlines are the bytes read without
\* their newlines, and no printed line has more than max_line_length bytes
\* before its newline
C5_OverlongLineSplit ==
    (opts.mode = MODE_LINE_BY_LINE /\ AtEof(StdoutKey)
        /\ Count(sent[StdoutKey], NUL) = 0) =>
        /\ Without(Concat(Lines(StdoutKey)), NL)
               = Without(sent[StdoutKey], NL)
        /\ \A i \in 1..Len(Lines(StdoutKey)) :
              Len(Text(Lines(StdoutKey)[i])) <= opts.max_line_length + 1

\* C9: every buffer handed to print_line_buffer holds at least one byte and
\* has a newline as its last byte before the terminating nul
C9_LinesEndInNewline ==
    \A i \in 1..Len(out) :
        out[i].kind = "line" =>
            /\ Len(out[i].data) >= 2
            /\ out[i].data[Len(out[i].data)] = NUL
            /\ out[i].data[Len(out[i].data) - 1] = NL

\* C9 witness: a line that was cut at max_line_length and printed at the
\* newline of the pipe, then an unterminated line flushed at end of file
C9_Witness ==
    /\ opts.max_line_length = 1
    /\ AtEof(StdoutKey)
    /\ sent[StdoutKey] = <<LetterA, LetterA, NL, LetterA>>
    /\ Len(Lines(StdoutKey)) = 2

\* C10: when the bytes read end, at end of file, with exactly
\* max_line_length bytes after the last newline, these bytes and one
\* newline are the last line printed, and one line was printed for them and
\* one for each newline read before
C10_ExactLengthLine ==
    (opts.mode = MODE_LINE_BY_LINE /\ AtEof(StdoutKey)
        /\ Len(LastLine(sent[StdoutKey])) = opts.max_line_length) =>
        LET ls == Lines(StdoutKey)
        IN  /\ Len(ls) = Count(sent[StdoutKey], NL) + 1
            /\ Text(ls[Len(ls)]) = LastLine(sent[StdoutKey]) \o <<NL>>

\* C10 witness: two bytes, max_line_length 2, end of file
C10_Witness ==
    /\ opts.max_line_length = 2
    /\ AtEof(StdoutKey)
    /\ sent[StdoutKey] = <<LetterA, LetterA>>
    /\ Len(Lines(StdoutKey)) = 1

\* ---- join mode ------------------------------------------------------------
StdioKey(h) == <<h, PIPE_STDIO>>

Min(a, b) == IF a < b THEN a ELSE b

\* buf holds the first n bytes of q and a nul after them
HoldsPrefix(buf, q, n) ==
    /\ \A i \in 1..n : buf[i] = q[i]
    /\ buf[n + 1] = NUL

\* the captured output of a host: the bytes written to cp->output, without
\* the nul that ends them
Captured(h) ==
    SubSeq(cp[h].output, 1,
           Cardinality({i \in DOMAIN cp[h].output :
                          cp[h].output[i] # UNINIT}) - 1)

\* C7: at end of file cp->output holds the first min(length,
\* max_output_length) bytes read from the host's pipe, in order, ended by a
\* nul, whatever the chunks; before, the FdEvent's buffer holds them
C7_CapturedPrefix ==
    opts.mode = MODE_JOIN =>
        \A h \in DOMAIN cp :
            LET n == Min(Len(sent[StdioKey(h)]), opts.max_output_length)
            IN  IF AtEof(StdioKey(h))
                THEN /\ HoldsPrefix(cp[h].output, sent[StdioKey(h)], n)
                     /\ Captured(h) = SubSeq(sent[StdioKey(h)], 1, n)
                ELSE /\ fdev[StdioKey(h)].offset >= n
                     /\ \A i \in 1..n :
                           fdev[StdioKey(h)].buffer[i] = sent[StdioKey(h)][i]

\* C7 witness: one pipe of exactly max_output_length bytes and one of a
\* byte more, both at end of file
C7_Witness ==
    \E h1, h2 \in DOMAIN cp :
        /\ AtEof(StdioKey(h1)) /\ AtEof(StdioKey(h2))
        /\ Len(sent[StdioKey(h1)]) = opts.max_output_length
        /\ Len(sent[StdioKey(h2)]) = opts.max_output_length + 1
        /\ sent[StdioKey(h2)][opts.max_output_length + 1] # NUL

Class(i) == {h \in Hosts : cp[h].output_idx = i}

\* C6: after join_mode_finish every host is in exactly one class, and two
\* hosts are in the same class exactly when their captured outputs are the
\* same bytes
C6_JoinPartition ==
    pc = "exit" =>
        /\ \A h \in Hosts : cp[h].output_idx \in 0..(report.idx - 1)
        /\ \A h1, h2 \in Hosts :
              cp[h1].output_idx = cp[h2].output_idx
                  <=> Captured(h1) = Captured(h2)

\* the part of C6 that holds: the classes partition the roster, and hosts
\* are in the same class exactly when their outputs agree up to the first
\* nul byte
C6_JoinPartitionCStr ==
    pc = "exit" =>
        /\ \A h \in Hosts : cp[h].output_idx \in 0..(report.idx - 1)
        /\ \A h1, h2 \in Hosts :
              cp[h1].output_idx = cp[h2].output_idx
                  <=> CStr(cp[h1].output) = CStr(cp[h2].output)

RECURSIVE Sum(_)
Sum(q) == IF q = <<>> THEN 0 ELSE Head(q) + Sum(Tail(q))

SetMin(S) == CHOOSE x \in S : \A y \in S : x <= y

\* what C8 says of the order and the counts of the report
ReportInRosterOrder ==
    /\ \A b \in 1..report.idx :
          /\ Class(b - 1) # {}
          /\ report.blocks[b].count = Cardinality(Class(b - 1))
          /\ Len(report.blocks[b].names) = report.blocks[b].count
          /\ \A i \in 1..Len(report.blocks[b].names) :
                /\ report.blocks[b].names[i] \in Class(b - 1)
                /\ i > 1 => report.blocks[b].names[i - 1]
                               < report.blocks[b].names[i]
          /\ b > 1 => SetMin(Class(b - 2)) < SetMin(Class(b - 1))
    /\ Sum([b \in 1..report.idx |-> report.blocks[b].count]) = num_hosts

\* C8: the report of join mode lists the classes in the order of their
\* first host in the roster and the hosts of a class in roster order, the
\* count of a class is the number of its hosts, the counts add up to the
\* number of hosts, and the number of unique results is the number of
\* distinct captured outputs
C8_JoinReport ==
    pc = "exit" =>
        /\ ReportInRosterOrder
        /\ report.idx = Cardinality({Captured(h) : h \in Hosts})

\* the part of C8 that holds
C8_JoinReportOrder == pc = "exit" => ReportInRosterOrder

\* what join mode keeps of a merged stream q: its first max_output_length
\* bytes, as far as the first nul byte among them
Kept(q) ==
    CStr(SubSeq(q, 1, Min(Len(q), opts.max_output_length)) \o <<NUL>>)

\* C14: the classes join_mode_finish makes are a function of the roster and
\* of the bytes each host wrote to its merged pipe: two hosts are in the
\* same class exactly when what join mode keeps of their streams is the
\* same, whatever the batches, the chunks, the order of the reaps and
\* max_jobs were
C14_JoinClassesFromStreams ==
    (opts.mode = MODE_JOIN /\ pc = "exit") =>
        /\ \A h \in Hosts : cp[h].output_idx \in 0..(report.idx - 1)
        /\ \A h1, h2 \in Hosts :
              cp[h1].output_idx = cp[h2].output_idx
                  <=> Kept(sent[StdioKey(h1)]) = Kept(sent[StdioKey(h2)])

\* C14 witness: two hosts run one after the other, each writes two bytes,
\* the streams differ after the bytes kept, and both are in one class
C14_Witness ==
    /\ opts.mode = MODE_JOIN /\ pc = "exit" /\ opts.max_jobs = 1
    /\ sent[StdioKey(1)] = <<LetterA, NL>>
    /\ sent[StdioKey(2)] = <<LetterA, LetterA>>
    /\ cp[1].output_idx = cp[2].output_idx

\* ---- group mode ------------------------------------------------------------
\* the chunks among the first i entries of out
ChunksBefore(i) == {j \in 1..(i - 1) : out[j].kind = "chunk"}

SetMax(S) == CHOOSE x \in S : \A y \in S : y <= x

\* entry i of out is a chunk that opens a run: no chunk was written before
\* it, or the last one before it came from another host
OpensRun(i) ==
    \/ ChunksBefore(i) = {}
    \/ out[SetMax(ChunksBefore(i))].host # out[i].host

\* entry i of out is a chunk with its host's header right before it
HasHeader(i) ==
    i > 1 /\ out[i - 1].kind = "header" /\ out[i - 1].host = out[i].host

\* C11: in group mode without -a a chunk has its host's header right before
\* it exactly when it opens a run of chunks of that host (no chunk before
\* it, or the chunk before it from another host), and every header written
\* is the one of the chunk that follows it; with -a no header is written
C11_HeaderOncePerRun ==
    opts.mode = MODE_GROUP =>
        \A i \in 1..Len(out) :
            /\ (out[i].kind = "chunk" /\ ~opts.anonymous) =>
                   (HasHeader(i) <=> OpensRun(i))
            /\ out[i].kind = "header" =>
                   /\ ~opts.anonymous
                   /\ i < Len(out) => /\ out[i + 1].kind = "chunk"
                                     /\ out[i + 1].host = out[i].host

\* C11 witness: a host's header is written a second time after a chunk of
\* another host came between two of its chunks
C11_Witness ==
    /\ opts.mode = MODE_GROUP /\ ~opts.anonymous
    /\ \E i, j, l \in 1..Len(out) :
          /\ i < j /\ j < l
          /\ out[i].kind = "chunk" /\ out[j].kind = "chunk"
          /\ out[l].kind = "chunk"
          /\ out[i].host = out[l].host /\ out[j].host # out[i].host
          /\ HasHeader(i) /\ HasHeader(l)

\* the bytes written, the host headers left out
RECURSIVE Stripped(_)
Stripped(o) ==
    IF o = <<>> THEN <<>>
    ELSE IF Head(o).kind = "header" THEN Stripped(Tail(o))
    ELSE Head(o).data \o Stripped(Tail(o))

\* the bytes a step has read from pipe k
NewlyRead(k) == SubSeq(sent'[k], Len(sent[k]) + 1, Len(sent'[k]))

SingleHostGroup ==
    opts.mode = MODE_GROUP /\ num_hosts = 1 /\ ~opts.exit_codes

\* a step reads from one pipe at most, and what it writes, headers left
\* out, is what it has read
WritesWhatItReads ==
    SingleHostGroup =>
        /\ NewlyRead(<<1, PIPE_STDOUT>>) = <<>>
              \/ NewlyRead(<<1, PIPE_STDERR>>) = <<>>
        /\ Stripped(out') = Stripped(out) \o NewlyRead(<<1, PIPE_STDOUT>>)
                                          \o NewlyRead(<<1, PIPE_STDERR>>)

\* C15: in group mode with one host and without -e every dispatch appends
\* to the bytes written, headers left out, exactly the bytes it has read,
\* so the bytes written are the chunks read in the order of their dispatch;
\* the bytes written with the colour of a pipe are the bytes read from it
C15_GroupSingleHostVerbatim ==
    /\ [][WritesWhatItReads]_vars
    /\ [](SingleHostGroup =>
            /\ Len(Stripped(out)) = Len(sent[<<1, PIPE_STDOUT>>])
                                      + Len(sent[<<1, PIPE_STDERR>>])
            /\ \A t \in {PIPE_STDOUT, PIPE_STDERR} :
                  Stripped(SelectKind(out, "chunk", <<1, t>>)) = sent[<<1, t>>])

\* C15 witness: the host's stderr was read before its stdout, a letter
\* from the one and a newline from the other, and both are at end of file
C15_Witness ==
    /\ SingleHostGroup /\ ~opts.anonymous
    /\ AtEof(<<1, PIPE_STDOUT>>) /\ AtEof(<<1, PIPE_STDERR>>)
    /\ Len(out) = 3
    /\ out[2].type = PIPE_STDERR /\ out[2].data = <<LetterA>>
    /\ out[3].type = PIPE_STDOUT /\ out[3].data = <<NL>>

\* ---- the exit summary ------------------------------------------------------
\* the places in out of the entries of the given kinds for host h
Places(kinds, h) == {i \in 1..Len(out) : out[i].kind \in kinds /\ out[i].host = h}

\* the bytes of the chunks written for host h, in the order written
RECURSIVE ChunkBytes(_, _)
ChunkBytes(o, h) ==
    IF o = <<>> THEN <<>>
    ELSE IF Head(o).kind = "chunk" /\ Head(o).host = h
    THEN Head(o).data \o ChunkBytes(Tail(o), h)
    ELSE ChunkBytes(Tail(o), h)

\* every byte read from host h's stdout is in what was written for h
\* (line-by-line mode: with the newline added to a last partial line)
StreamedAll(h) ==
    LET q == sent[<<h, PIPE_STDOUT>>]
    IN  CASE opts.mode = MODE_LINE_BY_LINE ->
                Concat(Lines(<<h, PIPE_STDOUT>>))
                    = (IF q = <<>> \/ q[Len(q)] = NL THEN q ELSE q \o <<NL>>)
          [] opts.mode = MODE_GROUP -> ChunkBytes(out, h) = q
          [] OTHER -> TRUE

\* exactly one summary line for each reaped host and none for the others,
\* so one for every host once main_loop has returned; nothing is written
\* for a host after its summary line, nothing at all for a host whose pipes
\* were empty
OneSummaryAtReap ==
    /\ \A h \in Hosts :
          /\ Cardinality(Places({"exit"}, h)) = (IF h \in Reaped THEN 1 ELSE 0)
          /\ \A i \in Places({"exit"}, h), j \in Places({"line", "chunk"}, h) :
                j < i
          /\ (\A t \in {PIPE_STDOUT, PIPE_STDERR, PIPE_STDIO} :
                 sent[<<h, t>>] = <<>>) => Places({"line", "chunk"}, h) = {}
    /\ pc \in {"tail", "exit"} => Reaped = Hosts

\* C12: with -e every host gets exactly one summary line, written at its
\* reap and after every byte of its output has been written (in join mode:
\* after the report that carries its output); a host with empty pipes is
\* reaped and gets its line all the same
C12_SummaryAfterOutput ==
    opts.exit_codes =>
        /\ OneSummaryAtReap
        /\ \A h \in Reaped :
              /\ StreamedAll(h)
              /\ (opts.mode = MODE_JOIN /\ sent[StdioKey(h)] # <<>>) =>
                     report.idx >= 0

\* C12 as the code has it: the same in line-by-line and group mode; in join
\* mode the summary line is written at the reap, before the report, which
\* main() writes only after main_loop has returned with every host reaped
C12_SummaryAfterStreamedOutput ==
    opts.exit_codes =>
        /\ OneSummaryAtReap
        /\ \A h \in Reaped : StreamedAll(h)
        /\ opts.mode = MODE_JOIN =>
              (report.idx >= 0 => \A h \in Hosts : Places({"exit"}, h) # {})

\* C12 witness: line-by-line mode, a host with empty pipes and a host whose
\* last line had no newline, both reaped with their summary lines, the
\* second with exit code 7
C12_Witness ==
    /\ opts.exit_codes /\ opts.mode = MODE_LINE_BY_LINE
    /\ \E h1, h2 \in Reaped :
          /\ sent[<<h1, PIPE_STDOUT>>] = <<>>
          /\ Places({"exit"}, h1) # {}
          /\ sent[<<h2, PIPE_STDOUT>>] = <<LetterA>>
          /\ \E i \in Places({"exit"}, h2) : out[i].data = <<7>>

\* ---- exit statuses ---------------------------------------------------------
\* the option values are in range and the modes given go together
OptionsValid ==
    /\ opts.max_jobs >= 1
    /\ ~(opts.join /\ (opts.group \/ opts.silent \/ opts.anonymous))
    /\ opts.max_line_length >= 1
    /\ opts.max_output_length >= 1

\* a run that is asked to execute a command and has nothing wrong in its
\* options, and in which no call of the system fails
CleanOptions ==
    /\ ~input.version /\ ~input.help /\ ~input.unknown_option
    /\ input.color_ok /\ input.file_ok /\ input.epoll_ok
    /\ OptionsValid
    /\ input.argc >= 1

\* a line of the hosts file holds a name that does not fit, with its
\* newline, in the HOST_NAME_MAX - 1 characters fgets takes
OverlongLine ==
    \E l \in 1..Len(input.lines) : input.lines[l] >= HOST_NAME_MAX - 1

\* the base command does not fit base_ssh_command, or the command composed
\* for a host does not fit, with its terminating NULL, command[MAX_ARGS]
TooManyArgs ==
    \/ 2 + 2 * input.n_o + input.n_late > MAX_ARGS - 2
    \/ 2 + 2 * input.n_o + input.n_late + 1 + input.argc > MAX_ARGS - 1

\* the hosts file names no host
NoHosts == \A l \in 1..Len(input.lines) : input.lines[l] = 0

\* what C16 says of usage and configuration errors
UsageErrorsExit2 ==
    (pc = "exit" /\ ~input.version
        /\ (input.unknown_option \/ ~input.color_ok \/ ~OptionsValid)) =>
        status = 2

\* C16: an over-long line of the hosts file and too many arguments end the
\* program with exit status 3; usage and configuration errors end it with 2
C16_RuntimeErrorsExit3 ==
    /\ (pc = "exit" /\ CleanOptions /\ (OverlongLine \/ TooManyArgs)) =>
           status = 3
    /\ UsageErrorsExit2

\* C16 as the code has it: an over-long line of the hosts file and too many
\* arguments end the program with exit status 2, as usage and configuration
\* errors do, and before any child is spawned; the status is 3 only when a
\* call of the system has failed
C16_InputErrorsExit2 ==
    /\ (pc = "exit" /\ CleanOptions /\ (OverlongLine \/ TooManyArgs)) =>
           status = 2 /\ cp = <<>>
    /\ UsageErrorsExit2
    /\ status = 3 => ~input.epoll_ok

\* C16 witness: the command composed for the first host has one argument
\* too many, and the program has ended with status 2 in main_loop, the
\* epoll instance made
C16_Witness ==
    /\ pc = "exit" /\ status = 2 /\ epoll_fd = 3
    /\ CleanOptions /\ ~OverlongLine /\ ~NoHosts
    /\ 2 + 2 * input.n_o + input.n_late <= MAX_ARGS - 2
    /\ 2 + 2 * input.n_o + input.n_late + 1 + input.argc = MAX_ARGS

\* C17: a run that is not asked for the version and has max_jobs below 1,
\* -j together with -g, -s or -a, or a max_line_length or max_output_length
\* below 1, or is not asked for the usage either and has no command or no
\* host, ends in main() with exit status 2, no child spawned and no epoll
\* instance made
C17_ConfigErrorsExit2 ==
    (/\ pc # "main"
     /\ ~input.version
     /\ \/ ~OptionsValid
        \/ ~input.help /\ (input.argc < 1 \/ NoHosts)) =>
        /\ pc = "exit"
        /\ status = 2
        /\ cp = <<>>
        /\ epoll_fd = 0

\* C17 witness: a hosts file with a blank line only, nothing else wrong
C17_Witness ==
    /\ pc = "exit" /\ status = 2 /\ epoll_fd = 0
    /\ CleanOptions /\ ~TooManyArgs
    /\ input.lines = <<0>>

\* ---- blocking and the watcher ----------------------------------------------
\* another child than the one main_loop is reaping has a pipe registered:
\* output of it is waiting to be read, or still to come
OthersPending == \E k \in epoll : k[1] # events[ev_i][1]

\* C18: main_loop is never held in the waitpid() of wait_for_child, for a
\* child that closed its pipes and has not exited, while another child
\* has a pipe to be read
C18_ReapDoesNotBlock == pc = "waitpid" => ~OthersPending

\* the step is the call of epoll_wait
IsEpollWait == pc = "admit" /\ pc' = "events"

\* C19: whenever epoll_wait is called the roster is exhausted or outstanding
\* equals max_jobs, also after reaps: the slots they freed were filled in
\* the admission loop before the call
C19_FullBeforeWait ==
    [][IsEpollWait =>
          (cur_host = num_hosts + 1 \/ outstanding = opts.max_jobs)]_vars

\* C19 witness: after a reap the freed slot was filled, hosts are left in
\* the roster, and epoll_wait has returned again
C19_Witness ==
    /\ pc = "events" /\ ev_i = 1
    /\ done >= 1
    /\ outstanding = opts.max_jobs
    /\ cur_host <= num_hosts

\* the events of the batch still to be dispatched
ToDispatch ==
    IF pc = "events" THEN {events[i] : i \in ev_i..Len(events)}
    ELSE IF pc = "waitpid" THEN {events[i] : i \in (ev_i + 1)..Len(events)}
    ELSE {}

\* C20: a registered descriptor is open, not marked closed, and has its
\* FdEvent; a descriptor is marked closed exactly when it is closed; at end
\* of file read_active_fd deregisters the descriptor, then closes it, then
\* marks it closed, and destroys the FdEvent last; and every event still to
\* be dispatched in a batch is for a registered, open descriptor with its
\* FdEvent
C20_WatcherDiscipline ==
    /\ \A k \in epoll :
          /\ k \in DOMAIN fdev /\ k \in open_fds
          /\ fdev[k].host = k[1] /\ fdev[k].type = k[2]
          /\ fdev[k].fd >= 0 /\ fdev[k].fd = FdOf(cp[k[1]], k[2])
    /\ \A h \in DOMAIN cp : \A t \in PipeTypes(opts) :
          (<<h, t>> \in open_fds) <=> (FdOf(cp[h], t) # FD_CLOSED)
    /\ DOMAIN fdev \subseteq epoll
    /\ calls # <<>> =>
          \E k \in (DOMAIN sent) \ (epoll \cup open_fds \cup DOMAIN fdev) :
              calls = << <<"epoll_ctl_del", k>>, <<"close", k>>,
                         <<"mark", k>>, <<"fdev_destroy", k>> >>
    /\ ToDispatch \subseteq (epoll \cap open_fds \cap DOMAIN fdev)

\* C20 witness: a batch of two events, the first dispatched to its end of
\* file, its FdEvent destroyed, the second still to be dispatched
C20_Witness ==
    /\ pc = "events" /\ Len(events) = 2 /\ ev_i = 2
    /\ calls # <<>>
    /\ events[1] \notin DOMAIN fdev
    /\ events[2] \in DOMAIN fdev

\* ---- where a summary line starts ----------------------------------------------
\* the bytes an entry of out puts on stdout, colours left out: of a host
\* header and of a summary line only the newline that ends them matters
StdoutBytes(e) ==
    CASE e.kind = "line" -> (IF e.hdr THEN <<SPACE>> ELSE <<>>) \o Printed(e)
      [] e.kind = "chunk" -> e.data
      [] e.kind = "progress" -> <<CR>>
      [] OTHER -> <<NL>>

\* the last byte on stdout after the entries o; a newline when there is none
RECURSIVE LastByte(_)
LastByte(o) ==
    IF o = <<>> THEN NL
    ELSE LET b == StdoutBytes(o[Len(o)])
         IN  IF b = <<>> THEN LastByte(SubSeq(o, 1, Len(o) - 1))
             ELSE b[Len(b)]

\* C21: in every mode a summary line starts at the beginning of a line of
\* stdout: the last byte written before it, the newline wait_for_child may
\* have put first included, is a newline
C21_SummaryStartsLine ==
    \A i \in 1..Len(out) :
        out[i].kind = "exit" => LastByte(SubSeq(out, 1, i - 1)) = NL

\* ---- the progress line --------------------------------------------------------
\* the progress lines written, in order
RECURSIVE ProgressLines(_)
ProgressLines(o) ==
    IF o = <<>> THEN <<>>
    ELSE IF Head(o).kind = "progress"
    THEN <<Head(o).data>> \o ProgressLines(Tail(o))
    ELSE ProgressLines(Tail(o))

\* the progress line is painted once on entry to main_loop and once after
\* every reap, with the count of the hosts done by then
PaintedAtEveryReap ==
    pc \notin {"main", "enter"} =>
        ProgressLines(out) = [i \in 1..(done + 1) |-> <<i - 1, num_hosts>>]

\* a newline follows a progress line exactly when it shows done = total
NewlineAtTotal ==
    \A i \in 1..Len(out) :
        out[i].kind = "progress" =>
            ((i < Len(out) /\ out[i + 1].kind = "newline")
                <=> out[i].data[1] = out[i].data[2])

\* C22: a progress line is written only in join mode with stdout a
\* terminal; there it is repainted after every reap with the done count
\* after that reap, and followed by a newline exactly when done equals the
\* number of hosts
C22_ProgressOnTerminal ==
    /\ ProgressLines(out) # <<>> => opts.mode = MODE_JOIN /\ stdout_isatty
    /\ (opts.mode = MODE_JOIN /\ stdout_isatty) =>
           PaintedAtEveryReap /\ NewlineAtTotal

\* ---- silent mode --------------------------------------------------------------
\* every pipe of host h was read to its end
Drained(h) == \A t \in PipeTypes(opts) : AtEof(<<h, t>>)

\* C23: with -s nothing of what is read is written: out holds summary lines
\* only, one for each reaped host with -e and none without; no FdEvent's
\* buffer or offset has changed, nor have last_host and newline_printed;
\* the pipes are still read to end of file, closed and deregistered there,
\* and every child is reaped once its pipes are, all of them at the end
C23_SilentReadsAndDrops ==
    opts.silent =>
        /\ \A i \in 1..Len(out) : out[i].kind = "exit"
        /\ \A h \in Hosts :
              Cardinality(Places({"exit"}, h))
                  = (IF opts.exit_codes /\ h \in Reaped THEN 1 ELSE 0)
        /\ \A k \in DOMAIN fdev :
              fdev[k] = fdev_create(opts, cp[k[1]], k[1], k[2])
        /\ last_host = 0 /\ newline_printed
        /\ \A k \in DOMAIN sent :
              AtEof(k) => k \notin epoll /\ k \notin open_fds
                              /\ k \notin DOMAIN fdev
        /\ \A h \in Reaped : Drained(h)
        /\ pc \in {"tail", "exit"} => Reaped = Hosts

\* C23 witness: group mode with -s and -e, two hosts done; the first wrote
\* a letter to stdout and a newline to stderr, and only the two summary
\* lines were written
C23_Witness ==
    /\ opts.silent /\ opts.exit_codes /\ opts.mode = MODE_GROUP
    /\ pc = "exit" /\ num_hosts = 2
    /\ sent[<<1, PIPE_STDOUT>>] = <<LetterA>>
    /\ sent[<<1, PIPE_STDERR>>] = <<NL>>
    /\ Len(out) = 2

\* ---- who holds a buffer -------------------------------------------------------
\* cp->output of host h is not NULL
HasOutput(h) == cp[h].output # <<>>

\* C24: in join mode a child record holds a captured output exactly from
\* the end of file of its merged pipe on: the buffer of the pipe's FdEvent,
\* of max_output_length + 1 bytes, nul-terminated (only the nul for an
\* empty stream), while the FdEvent is destroyed; so when join_mode_finish
\* runs every host holds one and no FdEvent is left.  In line-by-line and
\* group mode no child record ever holds one, and an FdEvent and its buffer
\* are freed at the end of file of its pipe
C24_CapturedBufferOwnership ==
    /\ \A h \in DOMAIN cp :
          IF opts.mode = MODE_JOIN
          THEN /\ HasOutput(h) <=> AtEof(StdioKey(h))
               /\ HasOutput(h) =>
                     /\ Len(cp[h].output) = opts.max_output_length + 1
                     /\ StdioKey(h) \notin DOMAIN fdev
                     /\ \E i \in DOMAIN cp[h].output : cp[h].output[i] = NUL
                     /\ sent[StdioKey(h)] = <<>> => CStr(cp[h].output) = <<>>
               /\ ~HasOutput(h) =>
                     Len(fdev[StdioKey(h)].buffer) = opts.max_output_length + 1
          ELSE /\ ~HasOutput(h)
               /\ \A t \in PipeTypes(opts) :
                     AtEof(<<h, t>>) <=> <<h, t>> \notin DOMAIN fdev
    /\ (opts.mode = MODE_JOIN /\ pc \in {"tail", "exit"}) =>
           /\ DOMAIN cp = Hosts
           /\ \A h \in Hosts : HasOutput(h)
           /\ DOMAIN fdev = {}

\* C24 witness: join_mode_finish is about to run for three hosts, the
\* first with an empty stream and the second with a byte captured
C24_Witness ==
    /\ opts.mode = MODE_JOIN /\ pc = "tail" /\ num_hosts = 3
    /\ sent[StdioKey(1)] = <<>> /\ cp[1].output[1] = NUL
    /\ sent[StdioKey(2)] = <<LetterA>> /\ CStr(cp[2].output) = <<LetterA>>

\* ---- what epoll_wait waits for -------------------------------------------------
\* main_loop is about to call epoll_wait
AtEpollWait ==
    pc = "admit" /\ ~admit_cond(cur_host, num_hosts, outstanding, opts)

\* host h has a pipe that is open and registered in epoll_fd
Watched(h) ==
    \E t \in PipeTypes(opts) :
        /\ <<h, t>> \in epoll /\ <<h, t>> \in open_fds
        /\ FdOf(cp[h], t) >= 0

\* C25: whenever epoll_wait is called outstanding is at least 1 and is the
\* number of children admitted and not reaped, and each of them has a pipe
\* that is open and registered, so that its output or its end of file
\* wakes the call
C25_WaitHasWaker ==
    AtEpollWait =>
        /\ outstanding >= 1
        /\ Cardinality(Running) = outstanding
        /\ \A h \in Running : Watched(h)

\* C25 witness: epoll_wait is called after a reap with two children
\* running, one of them with its stderr at end of file and only its stdout
\* left to watch
C25_Witness ==
    /\ AtEpollWait /\ done >= 1 /\ outstanding = 2
    /\ \E h \in Running :
          cp[h].stderr_fd = FD_CLOSED /\ cp[h].stdout_fd >= 0

\* ---- whose output a chunk is ---------------------------------------------------
\* the lines that name a host, among the first i - 1 entries of out
NamingBefore(i) == {j \in 1..(i - 1) : out[j].kind \in {"header", "exit"}}

\* C26: in group mode without -a and with -e, the last line naming a host
\* that was written before a chunk, a host header or a summary line, names
\* the host the chunk came from
C26_ChunkAttributable ==
    (opts.mode = MODE_GROUP /\ ~opts.anonymous /\ opts.exit_codes) =>
        \A i \in 1..Len(out) :
            out[i].kind = "chunk" =>
                /\ NamingBefore(i) # {}
                /\ out[SetMax(NamingBefore(i))].host = out[i].host

\* ---- the bounds of the buffers -------------------------------------------------
\* s is a C string within its n cells: a nul is among them and every cell
\* before the first nul was written
Terminated(s, n) ==
    /\ Len(s) = n
    /\ \E i \in 1..n : s[i] = NUL /\ \A j \in 1..(i - 1) : s[j] # UNINIT

\* C27: in join mode, whatever max_line_length is next to
\* max_output_length, no write goes past index max_output_length of an
\* FdEvent's buffer (it keeps its max_output_length + 1 cells), its offset is
\* at most max_output_length + 1, and the captured output of a child
\* record is a nul-terminated string within these cells
C27_JoinCaptureInBounds ==
    opts.mode = MODE_JOIN =>
        /\ \A k \in DOMAIN fdev :
              /\ Len(fdev[k].buffer) = opts.max_output_length + 1
              /\ fdev[k].offset <= opts.max_output_length + 1
        /\ \A h \in DOMAIN cp :
              HasOutput(h) =>
                  Terminated(cp[h].output, opts.max_output_length + 1)

\* C27 witness: max_line_length 1 below max_output_length 2, and a stream
\* of four bytes of which two are captured
C27_Witness ==
    /\ opts.mode = MODE_JOIN
    /\ opts.max_line_length = 1 /\ opts.max_output_length = 2
    /\ Len(sent[StdioKey(1)]) = 4 /\ HasOutput(1)
    /\ CStr(cp[1].output) = <<LetterA, LetterA>>

\* ---- the accounting ------------------------------------------------------------
\* how far a descriptor field is: not set, open, closed
FdRank(v) == IF v = FD_UNSET THEN 0 ELSE IF v = FD_CLOSED THEN 2 ELSE 1

\* what a step may do to done and to the descriptors of the child records:
\* done does not go down, no record goes away, and a descriptor stays as
\* it is or goes on from not set to open or from open to closed
AccountingStep ==
    /\ done' >= done
    /\ DOMAIN cp \subseteq DOMAIN cp'
    /\ \A h \in DOMAIN cp : \A t \in {PIPE_STDOUT, PIPE_STDERR, PIPE_STDIO} :
          \/ FdOf(cp'[h], t) = FdOf(cp[h], t)
          \/ FdRank(FdOf(cp'[h], t)) = FdRank(FdOf(cp[h], t)) + 1
    /\ \A h \in (DOMAIN cp') \ (DOMAIN cp) :
          \A t \in {PIPE_STDOUT, PIPE_STDERR, PIPE_STDIO} :
              FdRank(FdOf(cp'[h], t)) <= 1

\* C28: at every moment the hosts admitted are outstanding + done in
\* number, outstanding is not negative and done is at most the number of
\* hosts; done never decreases, and a host's descriptors go from not set
\* to open to closed and never back
C28_AccountingConserved ==
    /\ [](/\ Cardinality(DOMAIN cp) = outstanding + done
          /\ cur_host - 1 = outstanding + done
          /\ outstanding >= 0
          /\ done <= num_hosts)
    /\ [][AccountingStep]_vars

\* C28 witness: three hosts admitted, one done and two outstanding, one of
\* these with its pipes closed and main_loop in its waitpid
C28_Witness ==
    /\ pc = "waitpid" /\ cur_host = 4
    /\ done = 1 /\ outstanding = 2
    /\ Cardinality(Reaped) = 1

\* the offset a line was printed with: print_line_buffer is handed
\* buffer[0 .. offset]
PrintedOffset(e) == Len(e.data) - 1

\* C29: in line-by-line mode no write goes past the max_line_length + 2
\* cells of an FdEvent's buffer (it keeps its size), its offset is at most
\* max_line_length + 1, and every line was printed with an offset above 0
\* and below max_line_length + 2, as the assertions before
\* print_line_buffer say, the nul that ends it inside the buffer
C29_LineBufferInBounds ==
    opts.mode = MODE_LINE_BY_LINE =>
        /\ \A k \in DOMAIN fdev :
              /\ Len(fdev[k].buffer) = opts.max_line_length + 2
              /\ fdev[k].offset <= opts.max_line_length + 1
        /\ \A i \in 1..Len(out) :
              out[i].kind = "line" =>
                  /\ PrintedOffset(out[i]) > 0
                  /\ PrintedOffset(out[i]) < opts.max_line_length + 2

\* C29 witness: three letters read and no newline, max_line_length 1: the
\* buffer holds the first and the newline put after it, the offset is
\* max_line_length + 1 and the third letter found no room
C29_Witness ==
    /\ opts.mode = MODE_LINE_BY_LINE /\ opts.max_line_length = 1
    /\ StdoutKey \in DOMAIN fdev
    /\ sent[StdoutKey] = <<LetterA, LetterA, LetterA>>
    /\ fdev[StdoutKey].offset = 2
    /\ fdev[StdoutKey].buffer = <<LetterA, NL, UNINIT>>

=============================================================================
